---- MODULE Spec2Model ----
(***************************************************************************)
(* routes/api/profile.js of DevConnector: the Express router of the        *)
(* profile resource over three Mongoose collections (Profile, Post, User). *)
(*                                                                         *)
(* Every handler is an async function: it runs without interruption up to  *)
(* an await of a store operation, and other handlers run between its       *)
(* awaits.  One action below is one such uninterrupted piece: the store    *)
(* operation awaited and the code that follows it up to the next await or  *)
(* the response.  Every store operation either succeeds or throws (a lost  *)
(* connection, a write the store rejects, such as the save of an array     *)
(* that Mongoose's version key finds changed since it was loaded); an      *)
(* operation that throws applied nothing.                                  *)
(*                                                                         *)
(* Strings that the code takes apart (skills) are sequences of one         *)
(* character strings; the other field values are strings, "" being both    *)
(* the empty string and a field that is not there (both falsy in the       *)
(* code's tests).  A document that may be null is a sequence of length 0   *)
(* or 1.                                                                   *)
(***************************************************************************)
EXTENDS Integers, Sequences, FiniteSets, TLC

VARIABLES
    profiles,   \* the Profile collection, in insertion order
    posts,      \* the Post collection
    users,      \* the User collection: the ids of the accounts
    reqs,       \* the requests received, in order of arrival
    nextId      \* the next ObjectId the driver generates

vars == <<profiles, posts, users, reqs, nextId>>

\* The bound of the model: the number of requests received.
MaxReqs == 2

\* The accounts.
Owners == {1, 2}

\* The owner whose requests are followed (req.user.id); the other owner's
\* documents are in the store.
Callers == {1}

----------------------------------------------------------------------------
(* Request payloads *)

TopKeys == {"company", "website", "location", "bio", "status", "githubusername"}
SocialKeys == {"youtube", "facebook", "twitter", "instagram", "linkedin"}
ListKeys == {"experience", "education"}

\* "a, b ,c"
SkillsABC == <<"a", ",", " ", "b", " ", ",", "c">>
\* ",d ,"
SkillsD == <<",", "d", " ", ",">>

BodyFull ==
    [company |-> "c1", website |-> "w1", location |-> "l1", bio |-> "b1",
     status |-> "dev", githubusername |-> "g1", skills |-> SkillsABC,
     youtube |-> "y1", facebook |-> "f1", twitter |-> "t1",
     instagram |-> "i1", linkedin |-> "k1"]

BodyPartial ==
    [company |-> "", website |-> "w2", location |-> "", bio |-> "",
     status |-> "mgr", githubusername |-> "", skills |-> SkillsD,
     youtube |-> "", facebook |-> "", twitter |-> "t2",
     instagram |-> "", linkedin |-> ""]

BodyNoStatus == [BodyPartial EXCEPT !.status = ""]

ProfileBodies == {BodyFull, BodyPartial, BodyNoStatus}

ExperienceBodies ==
    {[title |-> "t", company |-> "c", from |-> "2020"],
     [title |-> "t", company |-> "", from |-> "2020"]}

EducationBodies ==
    {[school |-> "s", degree |-> "d", from |-> "2019", fieldofstudy |-> "f"],
     [school |-> "s", degree |-> "", from |-> "2019", fieldofstudy |-> ""]}

----------------------------------------------------------------------------
(* The Field Projector: lines 61-79 *)

\* String.prototype.split(','): the pieces between the commas, in order.
RECURSIVE Split(_)
Split(s) ==
    IF \A i \in 1..Len(s) : s[i] # ","
    THEN <<s>>
    ELSE LET i == CHOOSE i \in 1..Len(s) :
                      s[i] = "," /\ \A j \in 1..(i - 1) : s[j] # ","
         IN <<SubSeq(s, 1, i - 1)>> \o Split(SubSeq(s, i + 1, Len(s)))

\* trimStart() in the place of trim().
RECURSIVE TrimStart(_)
TrimStart(t) == IF t # <<>> /\ Head(t) = " " THEN TrimStart(Tail(t)) ELSE t

\* String.prototype.trim(): the string without its leading and trailing
\* white space.
RECURSIVE Trim(_)
Trim(t) ==
    IF t = <<>> THEN t
    ELSE IF Head(t) = " " THEN Trim(Tail(t))
    ELSE IF t[Len(t)] = " " THEN Trim(SubSeq(t, 1, Len(t) - 1))
    ELSE t

\* skills.split(',').map(skill => skill.trim())
SkillList(s) == LET parts == Split(s) IN [i \in 1..Len(parts) |-> Trim(parts[i])]

\* profileFields.social: only the links supplied are set; a link that is not
\* set reads back as not there.
SocialFields(body) == [k \in SocialKeys |-> body[k]]

\* profileFields: user, social, and each field the body supplies (truthy).
ProfileFields(uid, body) ==
    LET supplied == {k \in TopKeys : body[k] # ""}
        keys == supplied \cup {"user", "social"}
                    \cup (IF body.skills # <<>> THEN {"skills"} ELSE {})
    IN [k \in keys |->
            CASE k = "user" -> uid
              [] k = "social" -> SocialFields(body)
              [] k = "skills" -> SkillList(body.skills)
              [] OTHER -> body[k]]

\* express-validator's check(f).not().isEmpty() for each required field: the
\* fields that fail, all of them collected.
ValidationErrors(required, body) ==
    {f \in required : IF f = "skills" THEN body[f] = <<>> ELSE body[f] = ""}

----------------------------------------------------------------------------
(* The collections *)

\* A Profile document with nothing set but its ids.
EmptyProfile(id, uid) ==
    [id |-> id, user |-> uid,
     company |-> "", website |-> "", location |-> "", bio |-> "",
     status |-> "", githubusername |-> "", skills |-> <<>>,
     social |-> [k \in SocialKeys |-> ""],
     experience |-> <<>>, education |-> <<>>]

\* { $set: fields } on a document: each field named is replaced whole, the
\* others are left.
SetFields(doc, fields) ==
    [k \in DOMAIN doc |-> IF k \in DOMAIN fields THEN fields[k] ELSE doc[k]]

\* new Profile(profileFields)
NewProfile(id, fields) == SetFields(EmptyProfile(id, fields.user), fields)

\* The positions of a collection that match { user: uid }.
Matching(coll, uid) == {i \in 1..Len(coll) : coll[i].user = uid}

\* Profile.findOne({ user: uid }): the first match, or null.
FindOne(coll, uid) ==
    IF Matching(coll, uid) = {} THEN <<>>
    ELSE LET i == CHOOSE i \in Matching(coll, uid) :
                      \A j \in Matching(coll, uid) : i <= j
         IN <<coll[i]>>

\* The collection without the document at position i.
RemoveAt(coll, i) == SubSeq(coll, 1, i - 1) \o SubSeq(coll, i + 1, Len(coll))

\* findOneAndRemove({ user: uid }): the first match is removed.
FindOneAndRemove(coll, uid) ==
    IF Matching(coll, uid) = {} THEN coll
    ELSE RemoveAt(coll, CHOOSE i \in Matching(coll, uid) :
                            \A j \in Matching(coll, uid) : i <= j)

\* findOneAndUpdate({ user: uid }, { $set: fields }): the first match is
\* updated in one store operation.
FindOneAndUpdate(coll, uid, fields) ==
    IF Matching(coll, uid) = {} THEN coll
    ELSE LET i == CHOOSE i \in Matching(coll, uid) :
                      \A j \in Matching(coll, uid) : i <= j
         IN [coll EXCEPT ![i] = SetFields(coll[i], fields)]

\* deleteOne in the place of deleteMany.
DeleteOne(coll, uid) ==
    IF \E i \in 1..Len(coll) : coll[i].user = uid
    THEN LET i == CHOOSE i \in 1..Len(coll) :
                      coll[i].user = uid /\ \A j \in 1..(i - 1) : coll[j].user # uid
         IN SubSeq(coll, 1, i - 1) \o SubSeq(coll, i + 1, Len(coll))
    ELSE coll

\* Post.deleteMany({ user: uid })
DeleteMany(coll, uid) == SelectSeq(coll, LAMBDA p : p.user # uid)

\* .populate('user', ['name', 'avatar']): the owner reference is replaced by
\* the account's public fields, or by null when the account is gone.
Populate(doc, accounts) ==
    [doc EXCEPT !.user = IF doc.user \in accounts THEN <<doc.user>> ELSE <<>>]

\* The position of a document by its own id (0: none).
PositionOf(coll, id) ==
    IF \E i \in 1..Len(coll) : coll[i].id = id
    THEN CHOOSE i \in 1..Len(coll) : coll[i].id = id
    ELSE 0

\* A save that writes the whole document loaded, not its modified path.
SaveDocument(coll, doc, list) ==
    IF \E i \in 1..Len(coll) : coll[i].id = doc.id
    THEN [i \in 1..Len(coll) |-> IF coll[i].id = doc.id THEN doc ELSE coll[i]]
    ELSE coll

\* document.save() of a loaded document whose only modified path is `list`
\* (unshift and splice mark the whole array modified): that path is written
\* to the document of the same id; the save of a document that is no longer
\* stored writes nothing.
SaveList(coll, doc, list) ==
    LET i == PositionOf(coll, doc.id)
    IN IF i = 0 THEN coll
       ELSE [coll EXCEPT ![i] = [@ EXCEPT ![list] = doc[list]]]

----------------------------------------------------------------------------
(* The Sub-list Editor *)

\* push in the place of unshift.
Push(list, entry) == list \o <<entry>>

\* Array.prototype.unshift(entry)
Unshift(list, entry) == <<entry>> \o list

\* list.map(item => item.id).indexOf(id): the first index (from 0) of an
\* entry with that id, or -1.
IndexOf(list, id) ==
    IF \E i \in 1..Len(list) : list[i].id = id
    THEN (CHOOSE i \in 1..Len(list) :
              list[i].id = id /\ \A j \in 1..(i - 1) : list[j].id # id) - 1
    ELSE -1

\* splice(start): without a count, everything from start on is removed.
SpliceToEnd(list, start, count) ==
    SubSeq(list, 1, IF start < 0
                    THEN (IF Len(list) + start < 0 THEN 0 ELSE Len(list) + start)
                    ELSE start)

\* Array.prototype.splice(start, count): a negative start counts from the
\* end of the array.
Splice(list, start, count) ==
    LET len == Len(list)
        from == IF start < 0
                THEN (IF len + start < 0 THEN 0 ELSE len + start)
                ELSE (IF start > len THEN len ELSE start)
        n == IF count < 0 THEN 0
             ELSE IF count > len - from THEN len - from ELSE count
    IN SubSeq(list, 1, from) \o SubSeq(list, from + n + 1, len)

\* The sub-document Mongoose makes of { ...req.body }, with its generated id.
Entry(id, body) == [id |-> id, fields |-> body]

----------------------------------------------------------------------------
(* Requests *)

\* A request in the handler: the authenticated owner (req.user.id, resolved
\* by the auth middleware), the body or path parameter, the await the
\* handler is at, its local `profile` and what it has sent.  found (what
\* findOne returned, before the handler changed it in place), entry (the
\* sub-document added) and ops (the store operations awaited so far: name,
\* whether it succeeded, the number of documents it matched) are the record
\* of what the handler did.
Request(kind, uid, list, arg, pc) ==
    [kind |-> kind, user |-> uid, list |-> list, arg |-> arg, pc |-> pc,
     found |-> <<>>, local |-> <<>>, entry |-> <<>>,
     sent |-> <<>>, out |-> <<>>, ops |-> <<>>]

\* res.status(status).json(body) / res.json(body) / res.status(500).send():
\* the response is sent and the handler returns.
Respond(req, status, body) ==
    [req EXCEPT !.sent = Append(@, status), !.out = body, !.pc = "done"]

\* An exception leaves the handler: the async function's promise rejects, or
\* the callback throws, and nothing answers the request.
Escape(req) == [req EXCEPT !.pc = "uncaught"]

\* The store operation just awaited, added to the request's record.
Logged(req, op, ok, n) ==
    [req EXCEPT !.ops = Append(@, <<op, ok, IF ok THEN n ELSE 0>>)]

Running == {i \in 1..Len(reqs) : reqs[i].pc \notin {"done", "uncaught"}}

At(r, kind, pc) == r \in 1..Len(reqs) /\ reqs[r].kind = kind /\ reqs[r].pc = pc

----------------------------------------------------------------------------
(* The state the server starts in *)

ValidExperience == [title |-> "t", company |-> "c", from |-> "2020"]
ValidEducation ==
    [school |-> "s", degree |-> "d", from |-> "2019", fieldofstudy |-> "f"]

\* A store that earlier requests have filled: owner 2 upserted BodyPartial
\* and added one experience entry, then owner 1 upserted BodyFull and added
\* two experience entries and one education entry.
SeedProfiles ==
    << [NewProfile(1, ProfileFields(2, BodyPartial)) EXCEPT
            !.experience = Unshift(<<>>, Entry(2, ValidExperience))],
       [NewProfile(3, ProfileFields(1, BodyFull)) EXCEPT
            !.experience = Unshift(Unshift(<<>>, Entry(4, ValidExperience)),
                                   Entry(5, ValidExperience)),
            !.education = Unshift(<<>>, Entry(6, ValidEducation))] >>

SeedPosts ==
    << [id |-> 1, user |-> 1], [id |-> 2, user |-> 2], [id |-> 3, user |-> 1] >>

Init ==
    /\ \/ profiles = <<>> /\ posts = <<>> /\ nextId = 1
       \/ profiles = SeedProfiles /\ posts = SeedPosts /\ nextId = 7
    /\ users = Owners
    /\ reqs = <<>>

----------------------------------------------------------------------------
(* The handlers up to their first await *)

\* GET /me, lines 16-18
GetMeStart(uid) == Request("getMe", uid, "", 0, "find")

\* The 400 sent without `return`: the handler goes on to the store.
PostStartWithoutReturn(uid, body) ==
    IF ValidationErrors({"status", "skills"}, body) # {}
    THEN [Request("post", uid, "", body, "find") EXCEPT !.sent = <<400>>]
    ELSE Request("post", uid, "", body, "find")

\* POST /, lines 40-82: a body that fails validation is answered 400 before
\* any store operation.
PostStart(uid, body) ==
    IF ValidationErrors({"status", "skills"}, body) # {}
    THEN Respond(Request("post", uid, "", body, "start"), 400, <<>>)
    ELSE Request("post", uid, "", body, "find")

\* GET /, lines 107-109
GetAllStart == Request("getAll", 0, "", 0, "find")

\* GET /user/:user_id, lines 120-122
GetUserStart(param) == Request("getUser", 0, "", param, "find")

\* DELETE /, lines 141-144
DeleteStart(uid) == Request("delete", uid, "", 0, "posts")

\* The fields check() requires of an entry of each list: lines 159-163,
\* 214-219.
Required(list) ==
    IF list = "experience" THEN {"title", "company", "from"}
    ELSE {"school", "degree", "from", "fieldofstudy"}

\* PUT /experience and PUT /education, lines 164-173 and 220-229
PutStart(uid, list, body) ==
    IF ValidationErrors(Required(list), body) # {}
    THEN Respond(Request("put", uid, list, body, "start"), 400, <<>>)
    ELSE Request("put", uid, list, body, "find")

\* DELETE /experience/:exp_id and DELETE /education/:edu_id, lines 193-195
\* and 249-251
DeleteEntryStart(uid, list, param) == Request("deleteEntry", uid, list, param, "find")

\* GET /github/:username, lines 270-279: config.get throws on a missing key,
\* inside the try.
GithubStart(configured) ==
    IF configured THEN Request("github", 0, "", 0, "call")
    ELSE Respond(Request("github", 0, "", 0, "start"), 500, <<>>)

\* The entry ids a client can name: those of the owner's list, and one that
\* no entry has.
EntryIds(uid, list) ==
    LET f == FindOne(profiles, uid)
    IN {0} \cup (IF f = <<>> THEN {}
                 ELSE {f[1][list][i].id : i \in 1..Len(f[1][list])})

\* The path parameters of GET /user/:user_id: an owner's id, a well-formed id
\* of no owner (0), a malformed id (-1).
UserParams == Owners \cup {0, -1}

Accept(req) ==
    /\ reqs' = Append(reqs, req)
    /\ UNCHANGED <<profiles, posts, users, nextId>>

\* A request arrives and its handler runs up to its first await.  serial:
\* the requests are sent one after another, each after the response to the
\* one before.
Receive(serial) ==
    /\ Len(reqs) < MaxReqs
    /\ serial => Running = {}
    /\ \/ \E u \in Callers : Accept(GetMeStart(u))
       \/ \E u \in Callers, b \in ProfileBodies : Accept(PostStart(u, b))
       \/ Accept(GetAllStart)
       \/ \E p \in UserParams : Accept(GetUserStart(p))
       \/ \E u \in Callers : Accept(DeleteStart(u))
       \/ \E u \in Callers, b \in ExperienceBodies : Accept(PutStart(u, "experience", b))
       \/ \E u \in Callers, b \in EducationBodies : Accept(PutStart(u, "education", b))
       \/ \E u \in Callers, l \in ListKeys :
              \E p \in EntryIds(u, l) : Accept(DeleteEntryStart(u, l, p))
       \/ \E c \in BOOLEAN : Accept(GithubStart(c))

----------------------------------------------------------------------------
(* The handlers from each await on *)

\* GET /me, lines 18-29
GetMeFind(r) ==
    /\ At(r, "getMe", "find")
    /\ \E ok \in BOOLEAN :
         LET req == reqs[r]
             got == FindOne(profiles, req.user)
             seen == Logged(req, "Profile.findOne", ok, Len(got))
         IN reqs' = [reqs EXCEPT ![r] =
                IF ~ok THEN Respond(seen, 500, <<>>)
                ELSE IF got = <<>> THEN Respond(seen, 400, <<>>)
                ELSE Respond([seen EXCEPT !.found = got], 200,
                             <<Populate(got[1], users)>>)]
    /\ UNCHANGED <<profiles, posts, users, nextId>>

\* POST /, lines 82-95: findOne, and for a new owner the construction of the
\* document, which draws its id.
PostFind(r) ==
    /\ At(r, "post", "find")
    /\ \E ok \in BOOLEAN :
         LET req == reqs[r]
             got == FindOne(profiles, req.user)
             seen == Logged(req, "Profile.findOne", ok, Len(got))
             fields == ProfileFields(req.user, req.arg)
         IN IF ~ok
            THEN /\ reqs' = [reqs EXCEPT ![r] = Respond(seen, 500, <<>>)]
                 /\ UNCHANGED nextId
            ELSE IF got # <<>>
            THEN /\ reqs' = [reqs EXCEPT ![r] =
                        [seen EXCEPT !.found = got, !.local = got, !.pc = "write"]]
                 /\ UNCHANGED nextId
            ELSE /\ reqs' = [reqs EXCEPT ![r] =
                        [seen EXCEPT !.local = <<NewProfile(nextId, fields)>>,
                                     !.pc = "write"]]
                 /\ nextId' = nextId + 1
    /\ UNCHANGED <<profiles, posts, users>>

\* POST /, lines 86-100: findOneAndUpdate for an owner found, save of the new
\* document otherwise.
PostWrite(r) ==
    /\ At(r, "post", "write")
    /\ \E ok \in BOOLEAN :
         LET req == reqs[r]
             fields == ProfileFields(req.user, req.arg)
             updated == FindOneAndUpdate(profiles, req.user, fields)
         IN IF req.found # <<>>
            THEN LET seen == Logged(req, "Profile.findOneAndUpdate", ok,
                                    Len(FindOne(profiles, req.user)))
                 IN IF ok
                    THEN /\ profiles' = updated
                         /\ reqs' = [reqs EXCEPT ![r] =
                                Respond([seen EXCEPT !.local = FindOne(updated, req.user)],
                                        200, FindOne(updated, req.user))]
                    ELSE /\ reqs' = [reqs EXCEPT ![r] = Respond(seen, 500, <<>>)]
                         /\ UNCHANGED profiles
            ELSE LET seen == Logged(req, "Profile.save", ok, 1)
                 IN IF ok
                    THEN /\ profiles' = Append(profiles, req.local[1])
                         /\ reqs' = [reqs EXCEPT ![r] = Respond(seen, 200, req.local)]
                    ELSE /\ reqs' = [reqs EXCEPT ![r] = Respond(seen, 500, <<>>)]
                         /\ UNCHANGED profiles
    /\ UNCHANGED <<posts, users, nextId>>

\* GET /, lines 109-114: the catch calls console.err, which is not a
\* function, so the catch itself throws and sends nothing.
GetAllFind(r) ==
    /\ At(r, "getAll", "find")
    /\ \E ok \in BOOLEAN :
         LET seen == Logged(reqs[r], "Profile.find", ok, Len(profiles))
         IN reqs' = [reqs EXCEPT ![r] =
                IF ok THEN Respond(seen, 200,
                                   [i \in 1..Len(profiles) |-> Populate(profiles[i], users)])
                ELSE Escape(seen)]
    /\ UNCHANGED <<profiles, posts, users, nextId>>

\* GET /user/:user_id, lines 122-135: a malformed id makes findOne throw a
\* CastError of kind ObjectId.
GetUserFind(r) ==
    /\ At(r, "getUser", "find")
    /\ \E ok \in BOOLEAN :
         LET req == reqs[r]
             got == IF req.arg = -1 THEN <<>> ELSE FindOne(profiles, req.arg)
             seen == Logged(req, "Profile.findOne", ok /\ req.arg # -1, Len(got))
         IN reqs' = [reqs EXCEPT ![r] =
                IF req.arg = -1 THEN Respond(seen, 400, <<>>)
                ELSE IF ~ok THEN Respond(seen, 500, <<>>)
                ELSE IF got = <<>> THEN Respond(seen, 400, <<>>)
                ELSE Respond([seen EXCEPT !.found = got], 200,
                             <<Populate(got[1], users)>>)]
    /\ UNCHANGED <<profiles, posts, users, nextId>>

\* DELETE /, lines 144 and 150-153: the owner's posts; the catch calls
\* console.err.
DeletePosts(r) ==
    /\ At(r, "delete", "posts")
    /\ \E ok \in BOOLEAN :
         LET req == reqs[r]
             left == DeleteMany(posts, req.user)
             seen == Logged(req, "Post.deleteMany", ok, Len(posts) - Len(left))
         IN IF ok
            THEN /\ posts' = left
                 /\ reqs' = [reqs EXCEPT ![r] = [seen EXCEPT !.pc = "profile"]]
            ELSE /\ reqs' = [reqs EXCEPT ![r] = Escape(seen)]
                 /\ UNCHANGED posts
    /\ UNCHANGED <<profiles, users, nextId>>

\* DELETE /, lines 146 and 150-153: the owner's Profile
DeleteProfile(r) ==
    /\ At(r, "delete", "profile")
    /\ \E ok \in BOOLEAN :
         LET req == reqs[r]
             left == FindOneAndRemove(profiles, req.user)
             seen == Logged(req, "Profile.findOneAndRemove", ok,
                            Len(profiles) - Len(left))
         IN IF ok
            THEN /\ profiles' = left
                 /\ reqs' = [reqs EXCEPT ![r] = [seen EXCEPT !.pc = "account"]]
            ELSE /\ reqs' = [reqs EXCEPT ![r] = Escape(seen)]
                 /\ UNCHANGED profiles
    /\ UNCHANGED <<posts, users, nextId>>

\* DELETE /, lines 148-153: the account, then the response
DeleteUser(r) ==
    /\ At(r, "delete", "account")
    /\ \E ok \in BOOLEAN :
         LET req == reqs[r]
             seen == Logged(req, "User.findOneAndRemove", ok,
                            IF req.user \in users THEN 1 ELSE 0)
         IN IF ok
            THEN /\ users' = users \ {req.user}
                 /\ reqs' = [reqs EXCEPT ![r] = Respond(seen, 200, <<>>)]
            ELSE /\ reqs' = [reqs EXCEPT ![r] = Escape(seen)]
                 /\ UNCHANGED users
    /\ UNCHANGED <<profiles, posts, nextId>>

\* PUT /experience and PUT /education, lines 173-174, 179-181 and 229-230,
\* 235-237: findOne, then unshift on the document loaded; with no Profile
\* `profile.experience` throws a TypeError, which the inner catch answers.
PutFind(r) ==
    /\ At(r, "put", "find")
    /\ \E ok \in BOOLEAN :
         LET req == reqs[r]
             got == FindOne(profiles, req.user)
             seen == Logged(req, "Profile.findOne", ok, Len(got))
             entry == Entry(nextId, req.arg)
         IN IF ok /\ got # <<>>
            THEN /\ reqs' = [reqs EXCEPT ![r] =
                        [seen EXCEPT
                            !.found = got,
                            !.entry = <<entry>>,
                            !.local = <<[got[1] EXCEPT
                                            ![req.list] = Unshift(@, entry)]>>,
                            !.pc = "save"]]
                 /\ nextId' = nextId + 1
            ELSE /\ reqs' = [reqs EXCEPT ![r] = Respond(seen, 500, <<>>)]
                 /\ UNCHANGED nextId
    /\ UNCHANGED <<profiles, posts, users>>

\* PUT /experience and PUT /education, lines 176-181 and 232-237
PutSave(r) ==
    /\ At(r, "put", "save")
    /\ \E ok \in BOOLEAN :
         LET req == reqs[r]
             seen == Logged(req, "Profile.save", ok,
                            IF PositionOf(profiles, req.local[1].id) = 0 THEN 0 ELSE 1)
         IN IF ok
            THEN /\ profiles' = SaveList(profiles, req.local[1], req.list)
                 /\ reqs' = [reqs EXCEPT ![r] = Respond(seen, 200, req.local)]
            ELSE /\ reqs' = [reqs EXCEPT ![r] = Respond(seen, 500, <<>>)]
                 /\ UNCHANGED profiles
    /\ UNCHANGED <<posts, users, nextId>>

\* DELETE /experience/:exp_id and DELETE /education/:edu_id, lines 195-200,
\* 205-207 and 251-256, 261-263: findOne, indexOf, splice on the document
\* loaded.
DeleteEntryFind(r) ==
    /\ At(r, "deleteEntry", "find")
    /\ \E ok \in BOOLEAN :
         LET req == reqs[r]
             got == FindOne(profiles, req.user)
             seen == Logged(req, "Profile.findOne", ok, Len(got))
         IN reqs' = [reqs EXCEPT ![r] =
                IF ok /\ got # <<>>
                THEN [seen EXCEPT
                        !.found = got,
                        !.local = <<[got[1] EXCEPT ![req.list] =
                                        Splice(@, IndexOf(@, req.arg), 1)]>>,
                        !.pc = "save"]
                ELSE Respond(seen, 500, <<>>)]
    /\ UNCHANGED <<profiles, posts, users, nextId>>

\* DELETE /experience/:exp_id and DELETE /education/:edu_id, lines 202-207
\* and 258-263
DeleteEntrySave(r) ==
    /\ At(r, "deleteEntry", "save")
    /\ \E ok \in BOOLEAN :
         LET req == reqs[r]
             seen == Logged(req, "Profile.save", ok,
                            IF PositionOf(profiles, req.local[1].id) = 0 THEN 0 ELSE 1)
         IN IF ok
            THEN /\ profiles' = SaveList(profiles, req.local[1], req.list)
                 /\ reqs' = [reqs EXCEPT ![r] = Respond(seen, 200, req.local)]
            ELSE /\ reqs' = [reqs EXCEPT ![r] = Respond(seen, 500, <<>>)]
                 /\ UNCHANGED profiles
    /\ UNCHANGED <<posts, users, nextId>>

\* What the outbound call to the external service ends in: a transport
\* error, a 200 with the repositories, another status.
Upstream == {"error", "ok", "other"}

\* GET /github/:username, the callback of request(), lines 279-288.  It runs
\* after the handler's try has been left.  On a transport error `response`
\* is undefined and response.statusCode throws.
GithubCallback(r) ==
    /\ At(r, "github", "call")
    /\ \E result \in Upstream :
         reqs' = [reqs EXCEPT ![r] =
            CASE result = "error" -> Escape(reqs[r])
              [] result = "other" -> Respond(reqs[r], 404, <<>>)
              [] OTHER -> Respond(reqs[r], 200, <<>>)]
    /\ UNCHANGED <<profiles, posts, users, nextId>>

----------------------------------------------------------------------------
(* The specifications *)

Step ==
    \E r \in 1..MaxReqs :
        \/ GetMeFind(r)
        \/ PostFind(r)
        \/ PostWrite(r)
        \/ GetAllFind(r)
        \/ GetUserFind(r)
        \/ DeletePosts(r)
        \/ DeleteProfile(r)
        \/ DeleteUser(r)
        \/ PutFind(r)
        \/ PutSave(r)
        \/ DeleteEntryFind(r)
        \/ DeleteEntrySave(r)
        \/ GithubCallback(r)

\* Handlers interleave at their awaits.
Next == Receive(FALSE) \/ Step

Spec == Init /\ [][Next]_vars

\* Each request is sent after the response to the one before.
NextSeq == Receive(TRUE) \/ Step

SpecSeq == Init /\ [][NextSeq]_vars

----------------------------------------------------------------------------
(* What is checked *)

Answered(r, status) == reqs[r].pc = "done" /\ reqs[r].sent = <<status>>

\* The ids of the entries of a list.
Ids(list) == {list[i].id : i \in 1..Len(list)}

\* C1: after any upserts for an owner, interleaved or not, the store holds at
\* most one Profile of that owner.
AtMostOneProfilePerOwner ==
    \A u \in Owners : Cardinality(Matching(profiles, u)) <= 1

\* A step in which request r leaves pc `from` answered 200.
Succeeds(r, kind, from) ==
    /\ At(r, kind, from)
    /\ reqs'[r].pc = "done"
    /\ reqs'[r].sent = <<200>>

\* C2: an upsert of an owner who has a Profile leaves every field the input
\* does not supply as it was: the top-level fields, each social link, both
\* lists.
UpsertKeepsUnsuppliedFields ==
    [][\A r \in 1..MaxReqs :
         (Succeeds(r, "post", "write") /\ reqs[r].found # <<>>
             /\ Matching(profiles, reqs[r].user) # {})
         => LET before == FindOne(profiles, reqs[r].user)[1]
                after == FindOne(profiles', reqs[r].user)[1]
                body == reqs[r].arg
            IN /\ \A k \in TopKeys : body[k] = "" => after[k] = before[k]
               /\ \A k \in SocialKeys :
                     body[k] = "" => after.social[k] = before.social[k]
               /\ after.experience = before.experience
               /\ after.education = before.education]_vars

\* C1's case is reached: two upserts of one owner have both created.
TwoUpsertsBothCreated ==
    \E r1, r2 \in 1..Len(reqs) :
        /\ r1 # r2
        /\ reqs[r1].kind = "post" /\ reqs[r2].kind = "post"
        /\ reqs[r1].user = reqs[r2].user
        /\ Answered(r1, 200) /\ Answered(r2, 200)
        /\ reqs[r1].found = <<>> /\ reqs[r2].found = <<>>

\* What split(',') and trim() make of the skills strings of the payloads.
ExpectedSkills(s) ==
    CASE s = SkillsABC -> << <<"a">>, <<"b">>, <<"c">> >>
      [] s = SkillsD -> << <<>>, <<"d">>, <<>> >>

Commas(s) == Cardinality({i \in 1..Len(s) : s[i] = ","})

\* GET /me of an owner answered 200 right after that owner's upsert was.
GetFollowsUpsert(s) ==
    /\ s + 1 <= Len(reqs)
    /\ reqs[s].kind = "post" /\ Answered(s, 200)
    /\ reqs[s + 1].kind = "getMe" /\ Answered(s + 1, 200)
    /\ reqs[s + 1].user = reqs[s].user

\* C3: a get-by-owner sent after an upsert with status and skills was
\* answered returns the projected input: each field supplied has the input's
\* value, and skills is the input split on commas, each token trimmed, in
\* order, empty tokens kept.
GetAfterUpsertReturnsProjection ==
    \A s \in 1..Len(reqs) :
        GetFollowsUpsert(s)
        => LET body == reqs[s].arg
               got == reqs[s + 1].out[1]
           IN /\ body.status # "" /\ body.skills # <<>>
              /\ \A k \in TopKeys : body[k] # "" => got[k] = body[k]
              /\ \A k \in SocialKeys : body[k] # "" => got.social[k] = body[k]
              /\ got.skills = ExpectedSkills(body.skills)
              /\ Len(got.skills) = Commas(body.skills) + 1
              /\ \A i \in 1..Len(got.skills) :
                    LET t == got.skills[i]
                    IN /\ \A j \in 1..Len(t) : t[j] # ","
                       /\ t # <<>> => (t[1] # " " /\ t[Len(t)] # " ")

\* C3's case is reached: "a, b ,c" upserted and read back.
GetAfterUpsertReached ==
    \E s \in 1..Len(reqs) :
        /\ GetFollowsUpsert(s)
        /\ reqs[s].arg.skills = SkillsABC
        /\ reqs[s + 1].out[1].skills = << <<"a">>, <<"b">>, <<"c">> >>

\* Requests s..t are add-entry requests of one owner to one list, each
\* answered 200.
AddRun(s, t) ==
    \A i \in s..t :
        /\ reqs[i].kind = "put" /\ Answered(i, 200)
        /\ reqs[i].user = reqs[s].user /\ reqs[i].list = reqs[s].list

\* The entries added by requests s..t, the last one first.
NewestFirst(s, t) == [i \in 1..(t - s + 1) |-> reqs[t - i + 1].entry[1]]

\* C4: after N add-entry requests executed one after another, the list holds
\* the N new entries, the most recent first, followed by the entries it had
\* before in their order: in the response to the last of them, and in the
\* store when that response is the last thing that happened.
AddsAreNewestFirst ==
    \A s \in 1..Len(reqs) : \A t \in s..Len(reqs) :
        AddRun(s, t)
        => LET list == reqs[s].list
               expected == NewestFirst(s, t) \o reqs[s].found[1][list]
           IN /\ reqs[t].out[1][list] = expected
              /\ t = Len(reqs)
                    => FindOne(profiles, reqs[s].user)[1][list] = expected
              /\ \A i \in s..t : \A e \in 1..Len(reqs[s].found[1][list]) :
                    reqs[i].entry[1].id # reqs[s].found[1][list][e].id

\* C4's case is reached: two adds in a row to a list that had entries.
TwoAddsInARow ==
    /\ Len(reqs) = 2
    /\ AddRun(1, 2)
    /\ Len(reqs[1].found[1][reqs[1].list]) >= 2
    /\ Len(FindOne(profiles, reqs[1].user)[1][reqs[1].list]) >= 4

\* The entry of list `list` at index i (from 1) is the first with id `id`.
FirstMatch(list, id, i) ==
    /\ i \in 1..Len(list)
    /\ list[i].id = id
    /\ \A j \in 1..(i - 1) : list[j].id # id

\* `after` is `before` without its entry at index i.
Without(before, i, after) ==
    /\ Len(after) = Len(before) - 1
    /\ \A j \in 1..Len(after) : after[j] = IF j < i THEN before[j] ELSE before[j + 1]

Other(list) == IF list = "experience" THEN "education" ELSE "experience"

\* C5: a remove request whose id is that of an entry of the owner's list
\* removes that one entry: the list saved, and returned, is the list loaded
\* without that entry, the others in their order, and the other list of the
\* stored Profile is as it was.
RemoveTakesOutExactlyThatEntry ==
    [][\A r \in 1..MaxReqs :
         (Succeeds(r, "deleteEntry", "save")
             /\ reqs[r].arg \in Ids(reqs[r].found[1][reqs[r].list]))
         => LET list == reqs[r].list
                loaded == reqs[r].found[1]
                at == PositionOf(profiles, loaded.id)
            IN \E i \in 1..Len(loaded[list]) :
                 /\ FirstMatch(loaded[list], reqs[r].arg, i)
                 /\ Without(loaded[list], i, reqs'[r].out[1][list])
                 /\ reqs'[r].out[1][Other(list)] = loaded[Other(list)]
                 /\ at # 0 =>
                      /\ Without(loaded[list], i, profiles'[at][list])
                      /\ profiles'[at][Other(list)] = profiles[at][Other(list)]
                      /\ Len(profiles') = Len(profiles)]_vars

\* C5's case is reached: of a list of two entries the first was removed and
\* the store holds the second.
RemovedOneOfTwo ==
    \E r \in 1..Len(reqs) :
        /\ reqs[r].kind = "deleteEntry" /\ Answered(r, 200)
        /\ Len(reqs[r].found[1][reqs[r].list]) = 2
        /\ reqs[r].arg = reqs[r].found[1][reqs[r].list][1].id
        /\ PositionOf(profiles, reqs[r].found[1].id) # 0
        /\ profiles[PositionOf(profiles, reqs[r].found[1].id)][reqs[r].list]
              = <<reqs[r].found[1][reqs[r].list][2]>>

\* C6: a remove request whose id matches no entry of the owner's list leaves
\* the list as it is or is answered with an error; it removes no entry.
RemoveOfUnknownIdRemovesNothing ==
    \A r \in 1..Len(reqs) :
        (/\ reqs[r].kind = "deleteEntry"
         /\ reqs[r].found # <<>>
         /\ reqs[r].arg \notin Ids(reqs[r].found[1][reqs[r].list])
         /\ Answered(r, 200))
        => reqs[r].out[1][reqs[r].list] = reqs[r].found[1][reqs[r].list]

\* C6's case: an id of no entry, a list with entries, answered 200.
RemoveOfUnknownIdReached ==
    \E r \in 1..Len(reqs) :
        /\ reqs[r].kind = "deleteEntry" /\ Answered(r, 200)
        /\ reqs[r].arg \notin Ids(reqs[r].found[1][reqs[r].list])
        /\ reqs[r].found[1][reqs[r].list] # <<>>

OpNames(r) == [i \in 1..Len(reqs[r].ops) |-> reqs[r].ops[i][1]]

NoneOf(coll, uid) == \A i \in 1..Len(coll) : coll[i].user # uid

\* C7: when a cascading delete of an owner with posts and one Profile is
\* answered 200, the stores hold no post, no Profile and no account of that
\* owner, and the three deletions were made in the order posts, Profile,
\* account.
CascadeDeleteLeavesNothing ==
    \A d \in 1..Len(reqs) :
        reqs[d].kind = "delete"
        => /\ (Answered(d, 200) /\ d = Len(reqs))
                => /\ NoneOf(posts, reqs[d].user)
                   /\ NoneOf(profiles, reqs[d].user)
                   /\ reqs[d].user \notin users
           /\ Answered(d, 200)
                => OpNames(d) = <<"Post.deleteMany", "Profile.findOneAndRemove",
                                  "User.findOneAndRemove">>
           /\ reqs[d].pc = "profile" => NoneOf(posts, reqs[d].user)
           /\ reqs[d].pc = "account"
                => NoneOf(posts, reqs[d].user) /\ NoneOf(profiles, reqs[d].user)
           /\ reqs[d].pc = "posts" => reqs[d].ops = <<>>

\* C7's case is reached: the delete removed posts, a Profile and the account.
CascadeDeleteReached ==
    \E d \in 1..Len(reqs) :
        /\ reqs[d].kind = "delete" /\ Answered(d, 200) /\ d = Len(reqs)
        /\ reqs[d].ops[1][3] >= 2
        /\ reqs[d].ops[2][3] = 1
        /\ reqs[d].ops[3][3] = 1

\* A store operation of request r failed.
StoreFailed(r) == \E i \in 1..Len(reqs[r].ops) : ~reqs[r].ops[i][2]

\* C8: in every handler a failure of a store operation or of the outbound
\* call is caught in the handler and answered with one error response; no
\* failure leaves the handler or its callback uncaught and no request stays
\* without a response.
EveryFailureIsAnswered ==
    \A r \in 1..Len(reqs) :
        /\ reqs[r].pc # "uncaught"
        /\ (reqs[r].pc = "done" /\ StoreFailed(r))
              => reqs[r].sent \in {<<400>>, <<404>>, <<500>>}
        /\ Len(reqs[r].sent) <= 1

\* C8's case: a store operation or the outbound call failed.
AFailureHappened ==
    \E r \in 1..Len(reqs) :
        /\ reqs[r].pc \in {"done", "uncaught"}
        /\ StoreFailed(r) \/ reqs[r].kind = "github"

\* Two add-entry requests that loaded the same list of the same Profile and
\* were both answered 200.
BothAddedToTheSameList(r1, r2) ==
    /\ r1 # r2
    /\ reqs[r1].kind = "put" /\ reqs[r2].kind = "put"
    /\ Answered(r1, 200) /\ Answered(r2, 200)
    /\ reqs[r1].list = reqs[r2].list
    /\ reqs[r1].found[1].id = reqs[r2].found[1].id
    /\ reqs[r1].found[1][reqs[r1].list] = reqs[r2].found[1][reqs[r2].list]

\* C9, list edits: two add-entry requests that both loaded the list before
\* either saved and were both answered 200 leave a stored list with the
\* entry of at most one of them.
StaleSaveLosesTheOtherEntry ==
    \A r1, r2 \in 1..Len(reqs) :
        BothAddedToTheSameList(r1, r2)
        => \A i \in 1..Len(profiles) :
              ~({reqs[r1].entry[1].id, reqs[r2].entry[1].id}
                    \subseteq Ids(profiles[i][reqs[r1].list]))

\* The fields of a Profile that an upsert can set.
Upsertable(doc) == [k \in DOMAIN doc \ ListKeys |-> doc[k]]

\* C9, upsert against list edit: the save of a list edit writes its list
\* alone, and the write of an upsert writes no list, so neither undoes the
\* other, whatever the interleaving.
ListEditAndUpsertWriteApart ==
    \A r \in 1..MaxReqs :
        /\ (Succeeds(r, "put", "save") \/ Succeeds(r, "deleteEntry", "save"))
              => /\ Len(profiles') = Len(profiles)
                 /\ \A i \in 1..Len(profiles) :
                       /\ Upsertable(profiles'[i]) = Upsertable(profiles[i])
                       /\ profiles'[i][Other(reqs[r].list)]
                             = profiles[i][Other(reqs[r].list)]
                       /\ profiles[i].id = reqs[r].local[1].id
                             => profiles'[i][reqs[r].list]
                                    = reqs[r].local[1][reqs[r].list]
        /\ (Succeeds(r, "post", "write") /\ reqs[r].found # <<>>)
              => /\ Len(profiles') = Len(profiles)
                 /\ \A i \in 1..Len(profiles) :
                       /\ profiles'[i].experience = profiles[i].experience
                       /\ profiles'[i].education = profiles[i].education

UpsertLandedSince(q, r) ==
    /\ q \in 1..Len(reqs)
    /\ reqs[q].kind = "post" /\ Answered(q, 200) /\ reqs[q].found # <<>>
    /\ reqs[q].user = reqs[r].user
    /\ reqs[q].out # <<>>
    /\ Upsertable(reqs[q].out[1]) # Upsertable(reqs[r].found[1])
    /\ LET at == PositionOf(profiles, reqs[r].found[1].id)
       IN at # 0 /\ Upsertable(profiles[at]) = Upsertable(reqs[q].out[1])

Wrote(r) ==
    \E i \in 1..Len(reqs[r].ops) :
        /\ reqs[r].ops[i][1] \in {"Profile.save", "Profile.findOneAndUpdate"}
        /\ reqs[r].ops[i][2]

\* The body of request r lacks a field its handler requires.
Invalid(r) ==
    LET body == reqs[r].arg
    IN CASE reqs[r].kind = "post" -> body.status = "" \/ body.skills = <<>>
         [] reqs[r].kind = "put" /\ reqs[r].list = "experience" ->
                body.title = "" \/ body.company = "" \/ body.from = ""
         [] reqs[r].kind = "put" /\ reqs[r].list = "education" ->
                body.school = "" \/ body.degree = "" \/ body.from = ""
                    \/ body.fieldofstudy = ""
         [] OTHER -> FALSE

Editing == {"post", "put", "deleteEntry"}

\* C10, in each state: an upsert, add-entry or remove-entry request answered
\* with an error has written nothing; one that fails validation is answered
\* 400 without a store operation; an add-entry or remove-entry request that
\* finds no Profile is answered 500.
ErrorMeansNothingWritten ==
    \A r \in 1..Len(reqs) :
        reqs[r].kind \in Editing
        => /\ reqs[r].pc # "uncaught"
           /\ (reqs[r].pc = "done" /\ reqs[r].sent # <<200>>)
                 => reqs[r].sent \in {<<400>>, <<500>>} /\ ~Wrote(r)
           /\ Invalid(r) <=> Answered(r, 400)
           /\ Invalid(r) => reqs[r].ops = <<>>
           /\ (reqs[r].kind # "post"
                 /\ Len(reqs[r].ops) >= 1
                 /\ reqs[r].ops[1] = <<"Profile.findOne", TRUE, 0>>)
                 => Answered(r, 500) /\ Len(reqs[r].ops) = 1

\* C10, in each step: the step in which such a request is answered with an
\* error changes no Profile and creates none.
ErrorStepChangesNothing ==
    \A r \in 1..MaxReqs :
        (/\ r \in 1..Len(reqs')
         /\ reqs'[r].kind \in Editing
         /\ reqs'[r].pc = "done" /\ reqs'[r].sent # <<200>>
         /\ r \in 1..Len(reqs) => reqs[r].pc # "done")
        => profiles' = profiles

\* C10: an upsert, add-entry or remove-entry request answered with an error
\* leaves the Profile collection as it is: a 400 comes before any store
\* operation, and an add or remove for an owner with no Profile is answered
\* 500 and creates none.  Both parts hold in every step and in the state it
\* leads to (the first state has no request).
ErrorResponsesLeaveTheStore ==
    [][ErrorStepChangesNothing /\ ErrorMeansNothingWritten']_vars

\* C10's cases are reached: a 400, and a 500 of an add for an owner with no
\* Profile.
ErrorResponsesReached ==
    /\ \E r \in 1..Len(reqs) : reqs[r].kind = "post" /\ Answered(r, 400)
    /\ \E r \in 1..Len(reqs) :
          /\ reqs[r].kind = "put" /\ Answered(r, 500)
          /\ reqs[r].ops = << <<"Profile.findOne", TRUE, 0>> >>

====
